---------------------------- MODULE Spec2Model ----------------------------
(***************************************************************************)
(* Model of kemenhub-cc: the quote engine (lib/quoteEngine.ts), the feed   *)
(* aggregation of the /api/items route variants and the dashboards.        *)
(*                                                                         *)
(* A string is a sequence of characters.  A character is a one-character   *)
(* string; the characters outside ASCII that the code names are written    *)
(* by name (LDQ, RDQ, ELLIPSIS, and two letters of the range U+00C2 to     *)
(* U+0179).                                                                *)
(***************************************************************************)
EXTENDS Integers, Sequences, FiniteSets, TLC

\* ------------------------------------------------------------ characters
LDQ == "ldquo"        \* U+201C, the opening curly quotation mark
RDQ == "rdquo"        \* U+201D, the closing curly quotation mark
DQ == "\""            \* the straight quotation mark
ELLIPSIS == "hellip"  \* U+2026
EACUTE == "Eacute"    \* U+00C9
eacute == "eacute"    \* U+00E9

\* The characters \s matches and trim() removes, among those of the model.
WhiteSpace == {" ", "\n", "\t"}

IsSpace(c) == c \in WhiteSpace

UpperAZ ==
  {"A","B","C","D","E","F","G","H","I","J","K","L","M",
   "N","O","P","Q","R","S","T","U","V","W","X","Y","Z"}

LowerOf ==
  [A |-> "a", B |-> "b", C |-> "c", D |-> "d", E |-> "e", F |-> "f",
   G |-> "g", H |-> "h", I |-> "i", J |-> "j", K |-> "k", L |-> "l",
   M |-> "m", N |-> "n", O |-> "o", P |-> "p", Q |-> "q", R |-> "r",
   S |-> "s", T |-> "t", U |-> "u", V |-> "v", W |-> "w", X |-> "x",
   Y |-> "y", Z |-> "z", Eacute |-> "eacute"]

\* String.prototype.toLowerCase, character by character.
toLowerCase(s) ==
  [i \in 1..Len(s) |-> IF s[i] \in DOMAIN LowerOf THEN LowerOf[s[i]] ELSE s[i]]

Min(S) == CHOOSE x \in S : \A y \in S : x <= y

\* The number of whitespace characters at the start and at the end of s.
leadingSpaces(s) ==
  Cardinality({i \in 1..Len(s) : \A j \in 1..i : IsSpace(s[j])})

trailingSpaces(s) ==
  Cardinality({i \in 1..Len(s) : \A j \in i..Len(s) : IsSpace(s[j])})

\* String.prototype.trim: the whitespace at both ends removed.
trim(s) == SubSeq(s, leadingSpaces(s) + 1, Len(s) - trailingSpaces(s))

\* String.prototype.trimEnd.
trimEnd(s) == SubSeq(s, 1, Len(s) - trailingSpaces(s))

\* s.replace(/\s+/g, " "): every run of whitespace becomes one space.
collapseSpaces(s) ==
  LET marked == [i \in 1..Len(s) |-> <<s[i], i > 1 /\ IsSpace(s[i-1])>>]
      kept   == SelectSeq(marked, LAMBDA p : ~(IsSpace(p[1]) /\ p[2]))
  IN  [i \in 1..Len(kept) |-> IF IsSpace(kept[i][1]) THEN " " ELSE kept[i][1]]

cleanSpaces(s) == trim(collapseSpaces(s))

\* The least index i >= from at which k occurs in s, or 0 (String.indexOf + 1).
indexOf(s, k, from) ==
  LET at == {i \in from..(Len(s) - Len(k) + 1) :
               s[i] = k[1] /\ SubSeq(s, i, i + Len(k) - 1) = k}
  IN  IF at = {} THEN 0 ELSE Min(at)

\* String.prototype.includes, for a non-empty k.
includes(s, k) ==
  \E i \in 1..(Len(s) - Len(k) + 1) :
     s[i] = k[1] /\ SubSeq(s, i, i + Len(k) - 1) = k

startsWith(s, k) == Len(s) >= Len(k) /\ SubSeq(s, 1, Len(k)) = k

\* The index of the first c after position i of s, or 0.
firstAfter(s, c, i) ==
  LET at == {j \in (i + 1)..Len(s) : s[j] = c}
  IN  IF at = {} THEN 0 ELSE Min(at)


\* ------------------------------------------------- lib/quoteEngine.ts
\* /<script[\s\S]*?<\/script>/gi and /<style[\s\S]*?<\/style>/gi replaced
\* by "": every block from an opening word to the first closing word after
\* it is removed, the case of the letters ignored.
removeBlocks(s, open, close) ==
  LET RECURSIVE rb(_)
      rb(r) ==
        LET t == toLowerCase(r)
            i == indexOf(t, open, 1)
            j == IF i = 0 THEN 0 ELSE indexOf(t, close, i + Len(open))
        IN  IF j = 0 THEN r
            ELSE SubSeq(r, 1, i - 1) \o rb(SubSeq(r, j + Len(close), Len(r)))
  IN  rb(s)

\* s.replace(/<[^>]+>/g, " "): a "<", at least one character other than
\* ">", and the first ">" after them become one space.
replaceTags(s) ==
  LET RECURSIVE rt(_)
      rt(r) ==
        LET opens == {i \in 1..Len(r) :
                        r[i] = "<" /\ firstAfter(r, ">", i) >= i + 2}
        IN  IF opens = {} THEN r
            ELSE LET i == Min(opens)
                     j == firstAfter(r, ">", i)
                 IN  SubSeq(r, 1, i - 1) \o <<" ">>
                       \o rt(SubSeq(r, j + 1, Len(r)))
  IN  rt(s)

SCRIPT_OPEN == <<"<","s","c","r","i","p","t">>
SCRIPT_CLOSE == <<"<","/","s","c","r","i","p","t",">">>
STYLE_OPEN == <<"<","s","t","y","l","e">>
STYLE_CLOSE == <<"<","/","s","t","y","l","e",">">>

stripHtmlSimple(html) ==
  trim(collapseSpaces(replaceTags(
    removeBlocks(removeBlocks(html, SCRIPT_OPEN, SCRIPT_CLOSE),
                 STYLE_OPEN, STYLE_CLOSE))))

\* The lookbehind [.?!] and the lookahead of the split expression: A to Z,
\* the range U+00C2 to U+0179, and an opening curly or a straight quotation
\* mark.
SentenceEnd == {".", "?", "!"}
SentenceStart == UpperAZ \cup {EACUTE, eacute} \cup {LDQ, DQ}

\* splitSentences without the lookahead: every space after ".", "?" or "!"
\* is a boundary, whatever follows it.
splitSentences_noLookahead(idText) ==
  LET sentencesOf(normalized) ==
        LET n == Len(normalized)
            cuts == {p \in 2..(n - 1) :
                       /\ IsSpace(normalized[p])
                       /\ normalized[p - 1] \in SentenceEnd}
            RECURSIVE split(_)
            split(from) ==
              LET next == {p \in cuts : p >= from}
              IN  IF next = {} THEN <<SubSeq(normalized, from, n)>>
                  ELSE <<SubSeq(normalized, from, Min(next) - 1)>>
                         \o split(Min(next) + 1)
            trimmed(pieces) == [i \in 1..Len(pieces) |-> trim(pieces[i])]
            nonEmpty(pieces) == SelectSeq(pieces, LAMBDA q : Len(q) > 0)
            orWhole(parts) == IF Len(parts) > 0 THEN parts ELSE <<normalized>>
        IN  orWhole(nonEmpty(trimmed(split(1))))
  IN  sentencesOf(cleanSpaces(idText))

splitSentences(idText) ==
  LET sentencesOf(normalized) ==
        LET n == Len(normalized)
            cuts == {p \in 2..(n - 1) :
                       /\ IsSpace(normalized[p])
                       /\ normalized[p - 1] \in SentenceEnd
                       /\ normalized[p + 1] \in SentenceStart}
            RECURSIVE split(_)
            split(from) ==
              LET next == {p \in cuts : p >= from}
              IN  IF next = {} THEN <<SubSeq(normalized, from, n)>>
                  ELSE <<SubSeq(normalized, from, Min(next) - 1)>>
                         \o split(Min(next) + 1)
            \* .map((s) => s.trim()).filter(Boolean)
            trimmed(pieces) == [i \in 1..Len(pieces) |-> trim(pieces[i])]
            nonEmpty(pieces) == SelectSeq(pieces, LAMBDA q : Len(q) > 0)
            orWhole(parts) == IF Len(parts) > 0 THEN parts ELSE <<normalized>>
        IN  orWhole(nonEmpty(trimmed(split(1))))
  IN  sentencesOf(cleanSpaces(idText))

clampLen(s, min, max) == Len(s) >= min /\ Len(s) <= max


\* ===== Rules =====
SAY_VERBS ==
  << <<"k","a","t","a">>,
     <<"m","e","n","g","a","t","a","k","a","n">>,
     <<"u","j","a","r">>,
     <<"t","u","t","u","r">>,
     <<"j","e","l","a","s">>,
     <<"m","e","n","j","e","l","a","s","k","a","n">>,
     <<"s","e","b","u","t">>,
     <<"m","e","n","y","e","b","u","t">>,
     <<"i","m","b","u","h">>,
     <<"t","e","g","a","s">>,
     <<"m","e","n","e","g","a","s","k","a","n">>,
     <<"u","n","g","k","a","p">>,
     <<"m","e","n","g","u","n","g","k","a","p">>,
     <<"p","a","p","a","r">>,
     <<"m","e","n","y","a","m","p","a","i","k","a","n">>,
     <<"l","a","n","j","u","t">>,
     <<"m","e","n","a","m","b","a","h","k","a","n">> >>

MENHUB_TERMS ==
  << <<"m","e","n","h","u","b">>,
     <<"m","e","n","t","e","r","i"," ","p","e","r","h","u","b","u","n","g","a","n">>,
     <<"k","e","m","e","n","h","u","b">> >>

HTTP == <<"h","t","t","p",":","/","/">>
HTTPS == <<"h","t","t","p","s",":","/","/">>
BOILERPLATE ==
  << <<"b","a","c","a"," ","j","u","g","a">>,
     <<"l","i","h","a","t"," ","j","u","g","a">>,
     <<"f","o","t","o",":">> >>

\* The band of /"[^"]{8,400}"/ and of its curly twin.
MinQuoteLen == 8
MaxQuoteLen == 400

\* quoteEnd with the upper end of the band exclusive ({8,399}).
quoteEnd_exclusiveMax(s, open, close, i) ==
  LET j == firstAfter(s, close, i)
  IN  IF /\ s[i] = open
         /\ j # 0
         /\ j - i - 1 >= MinQuoteLen
         /\ j - i - 1 < MaxQuoteLen
      THEN j ELSE 0

\* The index of the closing mark of an enclosed quotation that opens at i, or
\* 0: position i holds the opening mark and the first closing mark after it
\* lies MinQuoteLen..MaxQuoteLen characters further.
quoteEnd(s, open, close, i) ==
  LET j == firstAfter(s, close, i)
  IN  IF /\ s[i] = open
         /\ j # 0
         /\ j - i - 1 >= MinQuoteLen
         /\ j - i - 1 <= MaxQuoteLen
      THEN j ELSE 0

\* RegExp.prototype.test of the enclosed-quotation expression.
hasQuote(s, open, close) ==
  \E i \in 1..Len(s) : s[i] = open /\ quoteEnd(s, open, close, i) # 0

mentionsMenhub(t) ==
  \E k \in 1..Len(MENHUB_TERMS) : includes(t, MENHUB_TERMS[k])

\* hasSayVerb with the verb found anywhere, inside a longer word too.
hasSayVerb_anywhere(t) ==
  \E v \in 1..Len(SAY_VERBS) : includes(t, SAY_VERBS[v])

hasSayVerb(t) ==
  \E v \in 1..Len(SAY_VERBS) :
     \/ includes(t, <<" ">> \o SAY_VERBS[v] \o <<" ">>)
     \/ startsWith(t, SAY_VERBS[v] \o <<" ">>)

isContentful(text, t) ==
  /\ ~(includes(text, HTTP) \/ includes(text, HTTPS))
  /\ ~(\E b \in 1..Len(BOILERPLATE) : includes(t, BOILERPLATE[b]))

\* One "if (signal) { score += weight; reason.push(name); }" of scoreSentence.
addSignal(c, hit, weight, name) ==
  IF hit
  THEN [c EXCEPT !.score = @ + weight, !.reason = Append(@, name)]
  ELSE c

GoodLenMin == 40
GoodLenMax == 220

\* scoreSentence with the signals tested in an else-if chain: the first
\* signal that triggers is the only one counted.
scoreSentence_elseIf(s) ==
  LET text == cleanSpaces(s)
      t    == toLowerCase(text)
      c0   == [text |-> text, score |-> 0, reason |-> <<>>]
  IN  IF hasQuote(text, LDQ, RDQ) \/ hasQuote(text, DQ, DQ)
        THEN addSignal(c0, TRUE, 4, "direct-quotes")
      ELSE IF mentionsMenhub(t)
        THEN addSignal(c0, TRUE, 3, "mentions-menhub")
      ELSE IF hasSayVerb(t)
        THEN addSignal(c0, TRUE, 2, "speech-verb")
      ELSE IF clampLen(text, GoodLenMin, GoodLenMax)
        THEN addSignal(c0, TRUE, 2, "good-length")
      ELSE addSignal(c0, isContentful(text, t), 1, "contentful")

scoreSentence(s) ==
  LET text == cleanSpaces(s)
      t    == toLowerCase(text)
      c0   == [text |-> text, score |-> 0, reason |-> <<>>]
      c1   == addSignal(c0, hasQuote(text, LDQ, RDQ) \/ hasQuote(text, DQ, DQ),
                        4, "direct-quotes")
      c2   == addSignal(c1, mentionsMenhub(t), 3, "mentions-menhub")
      c3   == addSignal(c2, hasSayVerb(t), 2, "speech-verb")
      c4   == addSignal(c3, clampLen(text, GoodLenMin, GoodLenMax),
                        2, "good-length")
      c5   == addSignal(c4, isContentful(text, t), 1, "contentful")
  IN  c5

\* The loop "while ((m = re.exec(text)) !== null) results.push(...)" for one
\* of the two global expressions: the matches from left to right, each
\* search starting after the closing mark of the previous match.  A match is
\* [at |-> m.index + 1, text |-> cleanSpaces(m[1])].
execAll(text, open, close) ==
  LET RECURSIVE ex(_)
      ex(from) ==
        LET opens == {i \in from..Len(text) :
                        text[i] = open /\ quoteEnd(text, open, close, i) # 0}
        IN  IF opens = {} THEN <<>>
            ELSE LET i == Min(opens)
                     j == quoteEnd(text, open, close, i)
                 IN  <<[at |-> i, text |-> cleanSpaces(SubSeq(text, i + 1, j - 1))]>>
                       \o ex(j + 1)
  IN  ex(1)

\* results after the curly loop and then the straight loop.
quotedMatches(text) == execAll(text, LDQ, RDQ) \o execAll(text, DQ, DQ)

extractQuotedFragments(text) ==
  LET ms == quotedMatches(text)
  IN  [i \in 1..Len(ms) |-> ms[i].text]

MinAttributedLen == 30

extractAttributedFragments(text) ==
  LET attributed(t) == mentionsMenhub(t) /\ hasSayVerb(t)
      keep(s) == attributed(toLowerCase(s)) /\ Len(s) >= MinAttributedLen
      cleaned(kept) == [i \in 1..Len(kept) |-> cleanSpaces(kept[i])]
  IN  cleaned(SelectSeq(splitSentences(text), keep))


\* The text of a winner longer than HardCap is cut to SliceLen characters.
HardCap == 280
SliceLen == 277

addReason(c, name) == [c EXCEPT !.reason = Append(@, name)]

\* for (const x of xs) { const c = scoreSentence(x); c.reason.push(tier);
\* candidates.push(c); }
scoreAll(xs, tier) ==
  [i \in 1..Len(xs) |-> addReason(scoreSentence(xs[i]), tier)]

\* fallbackCandidates without the break: every sentence that mentions the
\* minister and is long enough becomes a candidate.
fallbackCandidates_noBreak(text) ==
  LET allOf(sents) ==
        LET keep(x) == /\ mentionsMenhub(toLowerCase(x))
                       /\ Len(x) >= MinAttributedLen
        IN  scoreAll(SelectSeq(sents, keep), "fallback-mentions-menhub")
  IN  allOf(splitSentences(text))

\* The tier 3 loop: the first sentence that mentions the minister and is at
\* least MinAttributedLen long, scored; it runs when tiers 1 and 2 are empty.
fallbackCandidates(text) ==
  LET firstOf(sents) ==
        LET ok == {i \in 1..Len(sents) :
                     /\ mentionsMenhub(toLowerCase(sents[i]))
                     /\ Len(sents[i]) >= MinAttributedLen}
        IN  IF ok = {} THEN <<>>
            ELSE <<addReason(scoreSentence(sents[Min(ok)]),
                             "fallback-mentions-menhub")>>
  IN  firstOf(splitSentences(text))

\* collectCandidates with a relevance gate in front of the tiers.
collectCandidates_gated(text) ==
  IF mentionsMenhub(toLowerCase(text))
  THEN scoreAll(extractQuotedFragments(text), "from-direct-fragment")
  ELSE <<>>

\* The candidates array of generateQuoteFromArticle before it is sorted.
collectCandidates(text) ==
  LET orFallback(tiers) ==
        IF Len(tiers) = 0 THEN fallbackCandidates(text) ELSE tiers
  IN  orFallback(scoreAll(extractQuotedFragments(text), "from-direct-fragment")
                   \o scoreAll(extractAttributedFragments(text),
                               "from-attributed-sentence"))

\* compareCandidates without the tie-break on the length of the text.
compareCandidates_scoreOnly(a, b) == b.score - a.score

\* The comparator of candidates.sort: the higher score first and, at equal
\* scores, the shorter text first.
compareCandidates(a, b) ==
  IF b.score # a.score THEN b.score - a.score ELSE Len(a.text) - Len(b.text)

\* Array.prototype.sort with compareCandidates; the sort is stable.
sortCandidates(cs) ==
  LET insert(sorted, c) ==
        LET before == {i \in 1..Len(sorted) :
                         \A j \in 1..i : compareCandidates(sorted[j], c) <= 0}
            k == Cardinality(before)
        IN  SubSeq(sorted, 1, k) \o <<c>> \o SubSeq(sorted, k + 1, Len(sorted))
      RECURSIVE run(_, _)
      run(sorted, i) ==
        IF i > Len(cs) THEN sorted ELSE run(insert(sorted, cs[i]), i + 1)
  IN  run(<<>>, 1)

\* truncateQuote cutting at HardCap instead of SliceLen.
truncateQuote_atCap(text) ==
  IF Len(text) > HardCap
  THEN trimEnd(SubSeq(text, 1, HardCap)) \o <<ELLIPSIS>>
  ELSE text

\* best.text.length > 280 ? best.text.slice(0, 277).trimEnd() + ellipsis
\*                         : best.text
truncateQuote(text) ==
  IF Len(text) > HardCap
  THEN trimEnd(SubSeq(text, 1, SliceLen)) \o <<ELLIPSIS>>
  ELSE text

\* `${input.title ? input.title + ". " : ""}${input.content ?? ""}`; an
\* absent title or content is the empty string.
rawOf(title, content) ==
  IF Len(title) > 0 THEN title \o <<".", " ">> \o content ELSE content

\* The result is <<>> for null and a one-element sequence for a candidate.
generateQuoteFromArticle(title, content) ==
  LET bestOf(sorted) ==
        IF Len(sorted) = 0 THEN <<>>
        ELSE <<[sorted[1] EXCEPT !.text = truncateQuote(@)]>>
      quoteOf(text) ==
        IF Len(text) = 0 THEN <<>>
        ELSE bestOf(sortCandidates(collectCandidates(text)))
  IN  quoteOf(stripHtmlSimple(rawOf(title, content)))


\* ------------------------------------- the /api/items route: the feed loader
\* The three variants of the route, by the file that holds each.
Variants == {"part_001", "part_002", "part_003"}

CORE_FEEDS ==
  << "https://www.antaranews.com/rss/terkini.xml",
     "https://rss.kompas.com/nasional",
     "https://www.tempo.co/rss/nasional" >>

\* GN_BASE followed by each of the three encoded GOOGLE_NEWS_QUERIES.
GOOGLE_NEWS_FEEDS ==
  << "https://news.google.com/rss/search?q=Menhub",
     "https://news.google.com/rss/search?q=BudiKaryaSumadi",
     "https://news.google.com/rss/search?q=Kemenhub" >>

\* The FEEDS a variant reads, in the order of its loop.
FEEDS(v) ==
  IF v = "part_003" THEN CORE_FEEDS \o GOOGLE_NEWS_FEEDS ELSE CORE_FEEDS

\* new URL(url).hostname.replace(/^www\./, "") for the URLs of FEEDS.
domainOf(url) ==
  CASE url = CORE_FEEDS[1] -> "antaranews.com"
    [] url = CORE_FEEDS[2] -> "rss.kompas.com"
    [] url = CORE_FEEDS[3] -> "tempo.co"
    [] url \in {GOOGLE_NEWS_FEEDS[i] : i \in 1..3} -> "news.google.com"
    [] OTHER -> "unknown"

\* DEFAULT_KEYWORDS of part_001 and part_002.
DEFAULT_KEYWORDS ==
  << <<"k","e","m","e","n","h","u","b">>,
     <<"k","e","m","e","n","t","e","r","i","a","n"," ","p","e","r","h","u","b","u","n","g","a","n">>,
     <<"m","e","n","h","u","b">>,
     <<"b","u","d","i"," ","k","a","r","y","a">>,
     <<"p","e","r","h","u","b","u","n","g","a","n">>,
     <<"k","e","m","e","n","t","e","r","i","a","n"," ","p","e","r","h","u","b","u","n","g","a","n"," ","r","i">> >>

\* KEYWORDS_DEFAULT of part_003.
KEYWORDS_DEFAULT ==
  << <<"m","e","n","h","u","b">>,
     <<"m","e","n","t","e","r","i"," ","p","e","r","h","u","b","u","n","g","a","n">>,
     <<"b","u","d","i"," ","k","a","r","y","a"," ","s","u","m","a","d","i">>,
     <<"k","e","m","e","n","t","e","r","i","a","n"," ","p","e","r","h","u","b","u","n","g","a","n">>,
     <<"k","e","m","e","n","h","u","b">> >>

defaultKeywords(v) ==
  IF v = "part_003" THEN KEYWORDS_DEFAULT ELSE DEFAULT_KEYWORDS

matchKeywords(textA, textB, kws) ==
  LET a == toLowerCase(textA)
      b == toLowerCase(textB)
  IN  \E k \in 1..Len(kws) :
        LET kk == toLowerCase(kws[k])
        IN  includes(a, kk) \/ includes(b, kk)

PLACEHOLDER_TITLE == <<"(","t","a","n","p","a"," ","j","u","d","u","l",")">>

FALLBACK_NOTE == "fallback_no_keyword_hits"

\* The fallbackCount of part_001, which GET leaves at its default.
DefaultFallbackCount == 15

\* A feed item is [title, link, pubDate, contentSnippet].  pubDate is the
\* publication time the item carries (isoDate in part_001): a positive
\* number is a time that parses, in the unit of Date's value; 0 is an absent
\* or empty field and -1 a text new Date() cannot parse.  A link of "" is an
\* absent or empty link.  publishedAt keeps the time that toISOString writes
\* and new Date() reads back.
validDate(d) == d > 0

\* The record one item of a feed makes, before the keyword gate.
baseOf(v, source, it) ==
  [ id          |-> <<source, it.link>>,
    title       |-> IF Len(it.title) > 0 THEN it.title ELSE PLACEHOLDER_TITLE,
    source      |-> source,
    publishedAt |-> it.pubDate,
    link        |-> it.link,
    summary     |-> it.contentSnippet,
    entities    |-> IF v = "part_003" THEN <<>> ELSE <<"Kemenhub">>,
    note        |-> "" ]

\* The title the keyword gate reads: part_001 has put the placeholder in
\* place of an empty title by then, part_002 and part_003 have not.
gateTitle(v, it) ==
  IF v = "part_001" /\ Len(it.title) = 0 THEN PLACEHOLDER_TITLE ELSE it.title

\* addItem without the keyword gate: every item that is kept is a hit.
addItem_noGate(v, kws, source, acc, it) ==
  IF it.link = "" \/ ~validDate(it.pubDate) THEN acc
  ELSE IF v = "part_003" /\ <<source, it.link>> \in acc.seen THEN acc
  ELSE [ seen |-> IF v = "part_003"
                  THEN acc.seen \cup {<<source, it.link>>} ELSE acc.seen,
         raw  |-> Append(acc.raw, baseOf(v, source, it)),
         hits |-> Append(acc.hits, baseOf(v, source, it)) ]

\* The body of "for (const it of items)": acc is [seen, raw, hits].
addItem(v, kws, source, acc, it) ==
  IF it.link = "" \/ ~validDate(it.pubDate) THEN acc
  ELSE IF v = "part_003" /\ <<source, it.link>> \in acc.seen THEN acc
  ELSE [ seen |-> IF v = "part_003"
                  THEN acc.seen \cup {<<source, it.link>>} ELSE acc.seen,
         raw  |-> Append(acc.raw, baseOf(v, source, it)),
         hits |-> IF matchKeywords(gateTitle(v, it), it.contentSnippet, kws)
                  THEN Append(acc.hits, baseOf(v, source, it))
                  ELSE acc.hits ]

\* The loop over the items of one feed that was read.
RECURSIVE addItems(_, _, _, _, _)
addItems(v, kws, source, acc, items) ==
  IF Len(items) = 0 THEN acc
  ELSE addItems(v, kws, source, addItem(v, kws, source, acc, Head(items)),
                Tail(items))

\* sortByDateDesc that sorts nothing.
sortByDateDesc_unsorted(xs) == xs

\* xs.sort(byDateDesc): the later publishedAt first; the sort is stable.
sortByDateDesc(xs) ==
  LET insert(sorted, x) ==
        LET k == Cardinality({i \in 1..Len(sorted) :
                   \A j \in 1..i : x.publishedAt - sorted[j].publishedAt <= 0})
        IN  SubSeq(sorted, 1, k) \o <<x>> \o SubSeq(sorted, k + 1, Len(sorted))
      RECURSIVE run(_, _)
      run(sorted, i) ==
        IF i > Len(xs) THEN sorted ELSE run(insert(sorted, xs[i]), i + 1)
  IN  run(<<>>, 1)

\* A number of JavaScript, kept in tenths; NaN is a value of its own.
Num(n) == [nan |-> FALSE, tenths |-> 10 * n]
NaN == [nan |-> TRUE, tenths |-> 0]

\* Math.min and Math.max of two numbers: NaN when either is NaN.
MathMin(a, b) ==
  IF a.nan \/ b.nan THEN NaN ELSE IF a.tenths <= b.tenths THEN a ELSE b
MathMax(a, b) ==
  IF a.nan \/ b.nan THEN NaN ELSE IF a.tenths >= b.tenths THEN a ELSE b

\* ToIntegerOrInfinity: NaN is 0, and the fraction is cut off toward zero.
toIntegerOrInfinity(x) ==
  IF x.nan THEN 0
  ELSE IF x.tenths >= 0 THEN x.tenths \div 10 ELSE -((-x.tenths) \div 10)

Digits == <<"0", "1", "2", "3", "4", "5", "6", "7", "8", "9">>
IsDigit(c) == \E d \in 1..10 : Digits[d] = c
digitValue(c) == (CHOOSE d \in 1..10 : Digits[d] = c) - 1

RECURSIVE decimalValue(_)
decimalValue(u) ==
  IF Len(u) = 0 THEN 0
  ELSE 10 * decimalValue(SubSeq(u, 1, Len(u) - 1)) + digitValue(u[Len(u)])

\* An unsigned decimal literal: digits, with or without a point and more
\* digits; anything else is NaN. The value is kept to its first decimal.
unsignedNumber(u) ==
  LET dots == {i \in 1..Len(u) : u[i] = "."}
      d == IF dots = {} THEN 0 ELSE CHOOSE i \in dots : \A j \in dots : i <= j
      whole == IF d = 0 THEN u ELSE SubSeq(u, 1, d - 1)
      frac == IF d = 0 THEN <<>> ELSE SubSeq(u, d + 1, Len(u))
  IN  IF \/ Len(whole) + Len(frac) = 0
         \/ \E i \in 1..Len(whole) : ~IsDigit(whole[i])
         \/ \E i \in 1..Len(frac) : ~IsDigit(frac[i])
      THEN NaN
      ELSE [nan |-> FALSE,
            tenths |-> 10 * decimalValue(whole)
                       + (IF Len(frac) = 0 THEN 0 ELSE digitValue(frac[1]))]

\* Number(s) of a string: white space is trimmed, the empty string is 0, a
\* signed decimal literal is its value and any other text is NaN. Exponents,
\* radix prefixes and Infinity are not read here.
Number(s) ==
  LET t == trim(s)
      negated(x) == IF x.nan THEN NaN ELSE [x EXCEPT !.tenths = -x.tenths]
  IN  IF Len(t) = 0 THEN Num(0)
      ELSE IF t[1] = "-" THEN negated(unsignedNumber(Tail(t)))
      ELSE IF t[1] = "+" THEN unsignedNumber(Tail(t))
      ELSE unsignedNumber(t)

\* Array.prototype.slice(0, n): n goes through ToIntegerOrInfinity, a
\* negative end counts from the end of the array, and the end is clamped
\* to the array.
slice0(xs, n) ==
  LET rel == toIntegerOrInfinity(n)
      final == IF rel < 0 THEN (IF Len(xs) + rel > 0 THEN Len(xs) + rel ELSE 0)
               ELSE IF rel < Len(xs) THEN rel ELSE Len(xs)
  IN  SubSeq(xs, 1, final)

\* resultOf with the fallback list left whole: raw is not sliced.
resultOf_noSlice(v, allow, count, hs, rw) ==
  IF Len(hs) > 0 THEN sortByDateDesc(hs)
  ELSE IF v = "part_003" /\ ~allow THEN <<>>
  ELSE LET cut == sortByDateDesc(rw)
       IN  IF v = "part_003" THEN cut
           ELSE [i \in 1..Len(cut) |-> [cut[i] EXCEPT !.note = FALLBACK_NOTE]]

\* What loadNewsFromFeeds returns once its loop has ended.
resultOf(v, allow, count, hs, rw) ==
  IF Len(hs) > 0 THEN sortByDateDesc(hs)
  ELSE IF v = "part_003" /\ ~allow THEN <<>>
  ELSE LET cut == slice0(sortByDateDesc(rw), count)
       IN  IF v = "part_003" THEN cut
           ELSE [i \in 1..Len(cut) |-> [cut[i] EXCEPT !.note = FALLBACK_NOTE]]

\* ------------------------------------------------------------ the inputs
\* the title of the reference article: Menhub resmikan terminal baru di Makassar hari ini
TITLE_MENHUB ==
  <<"M","e","n","h","u","b"," ","r","e","s","m","i","k","a","n"," ","t","e",
    "r","m","i","n","a","l"," ","b","a","r","u"," ","d","i"," ","M","a","k",
    "a","s","s","a","r"," ","h","a","r","i"," ","i","n","i">>

\* a title without any alias of the ministry: Cuaca cerah di Makassar
TITLE_PLAIN ==
  <<"C","u","a","c","a"," ","c","e","r","a","h"," ","d","i"," ","M","a","k",
    "a","s","s","a","r">>

\* a straight-quoted fragment: "Ini adalah bukti komitmen kami,"
P_QUOTE ==
  <<DQ,"I","n","i"," ","a","d","a","l","a","h"," ","b","u","k","t","i"," ",
    "k","o","m","i","t","m","e","n"," ","k","a","m","i",",",DQ>>

\* an attribution: a speech verb and an alias: kata Menhub
P_KATA_MENHUB ==
  <<"k","a","t","a"," ","M","e","n","h","u","b">>

\* a curly-quoted fragment: (ldquo)Kami siap,(rdquo)
P_CURLY ==
  <<LDQ,"K","a","m","i"," ","s","i","a","p",",",RDQ>>

\* a sentence that mentions the minister and reports no speech: Menteri Perhubungan meninjau pelabuhan baru.
P_SENTENCE ==
  <<"M","e","n","t","e","r","i"," ","P","e","r","h","u","b","u","n","g","a",
    "n"," ","m","e","n","i","n","j","a","u"," ","p","e","l","a","b","u","h",
    "a","n"," ","b","a","r","u",".">>

\* a straight-quoted fragment of 8 characters, 6 of them between spaces: " Setuju "
P_PADDED ==
  <<DQ," ","S","e","t","u","j","u"," ",DQ>>

\* a quoted boilerplate marker: "Baca juga ini"
P_BOILER ==
  <<DQ,"B","a","c","a"," ","j","u","g","a"," ","i","n","i",DQ>>

\* an alias alone: Kemenhub.
P_ALIAS ==
  <<"K","e","m","e","n","h","u","b",".">>

\* markup, a line break and a link: <p>Lihat\n https://dephub.go.id</p>
P_HTML ==
  <<"<","p",">","L","i","h","a","t","\n"," ","h","t","t","p","s",":","/",
    "/","d","e","p","h","u","b",".","g","o",".","i","d","<","/","p",">">>

\* a speech verb without an alias: ujar dia.
P_UJAR ==
  <<"u","j","a","r"," ","d","i","a",".">>

\* an alias and a speech verb that is part of a longer word: demikian penjelasan Kemenhub, katanya.
P_KATANYA ==
  <<"d","e","m","i","k","i","a","n"," ","p","e","n","j","e","l","a","s","a",
    "n"," ","K","e","m","e","n","h","u","b",","," ","k","a","t","a","n","y",
    "a",".">>

\* an angle bracket that opens no tag: 1 < 2
P_LESS ==
  <<"1"," ","<"," ","2">>

Titles == {<<>>, TITLE_MENHUB, TITLE_PLAIN}

Pieces ==
  {P_QUOTE, P_KATA_MENHUB, P_CURLY, P_SENTENCE, P_PADDED, P_BOILER, P_ALIAS,
   P_HTML, P_UJAR, P_KATANYA, P_LESS}

\* The most pieces of one content.
MaxPieces == 2

\* The pieces of ps, one space between two of them.
RECURSIVE joinPieces(_)
joinPieces(ps) ==
  IF Len(ps) = 0 THEN <<>>
  ELSE IF Len(ps) = 1 THEN ps[1]
  ELSE ps[1] \o <<" ">> \o joinPieces(Tail(ps))

\* One quotation of n characters in the marks of a style; the character at
\* position gap of the n, if any, is a space.
Styles == {<<LDQ, RDQ>>, <<DQ, DQ>>}

enclosed(style, n, gap) ==
  <<style[1]>> \o [i \in 1..n |-> IF i = gap THEN " " ELSE "x"]
    \o <<style[2]>>

\* The lengths at both ends of the extraction band, and one past HardCap.
FillLens ==
  {MinQuoteLen - 1, MinQuoteLen, MaxQuoteLen, MaxQuoteLen + 1, HardCap + 20}

EnclosedTexts ==
  {enclosed(st, n, gap) : st \in Styles, n \in FillLens, gap \in {0, SliceLen}}

Contents ==
  {joinPieces(ps) : ps \in UNION {[1..k -> Pieces] : k \in 0..MaxPieces}}
    \cup EnclosedTexts

\* The items a feed may deliver.
ITEM_HIT ==
  [title |-> <<"M","e","n","h","u","b"," ","t","i","n","j","a","u"," ","b","a","n","d","a","r","a">>,
   link |-> "/a", pubDate |-> 2, contentSnippet |-> <<>>]
ITEM_MISS ==
  [title |-> <<"C","u","a","c","a"," ","c","e","r","a","h">>,
   link |-> "/b", pubDate |-> 3, contentSnippet |-> <<>>]
ITEM_UNTITLED ==
  [title |-> <<>>, link |-> "/a", pubDate |-> 1,
   contentSnippet |-> <<"R","i","l","i","s"," ","K","E","M","E","N","H","U","B">>]
ITEM_NO_LINK ==
  [title |-> <<"C","u","a","c","a"," ","c","e","r","a","h">>,
   link |-> "", pubDate |-> 2, contentSnippet |-> <<>>]
ITEM_BAD_DATE ==
  [title |-> <<"M","e","n","h","u","b">>,
   link |-> "/e", pubDate |-> -1, contentSnippet |-> <<>>]

ItemPool == {ITEM_HIT, ITEM_MISS, ITEM_UNTITLED, ITEM_NO_LINK, ITEM_BAD_DATE}

\* The most items all the feeds of one run deliver together.
MaxItems == 2

\* The keyword lists GET may pass: the default of the variant, ?q=cuaca or
\* ?q=judul.
Q_CUACA == << <<"c","u","a","c","a">> >>
Q_JUDUL == << <<"j","u","d","u","l">> >>
KeywordLists(v) == {defaultKeywords(v), Q_CUACA, Q_JUDUL}

\* The fallbackCount GET may pass: part_001 passes none; the other variants
\* pass ?limit, which is 15 when absent.
FallbackCounts(v) ==
  IF v = "part_001" THEN {Num(DefaultFallbackCount)}
  ELSE {Num(1), Num(DefaultFallbackCount)}

\* The ?limit= a request may carry: absent, empty, 100, -3, 2.5 or abc.
\* part_001 does not read it.
LimitParams(v) ==
  IF v = "part_001" THEN {<<>>}
  ELSE {<<>>, << <<>> >>, << <<"1", "0", "0">> >>, << <<"-", "3">> >>,
        << <<"2", ".", "5">> >>, << <<"a", "b", "c">> >>}

\* --------------------------------------------------------------- the state
VARIABLES
  title,         \* input.title of the article
  content,       \* input.content of the article
  pc,            \* "input", or the function that was applied to the input
  scored,        \* the QuoteCandidate scoreSentence(content) returned
  fragments,     \* the array extractQuotedFragments(content) returned
  attributed,    \* the array extractAttributedFragments(content) returned
  stripped,      \* the string stripHtmlSimple(content) returned
  sentences,     \* the array splitSentences(content) returned
  candidates,    \* the candidates array of generateQuoteFromArticle at its end
  quote,         \* what generateQuoteFromArticle returned: <<>> is null
  previous,      \* the call made before this one, with its input and its
                 \* result; <<>> when this is the first call
  variant,       \* the route variant that runs
  keywords,      \* loadNewsFromFeeds: the keywords parameter
  allowFallback, \* loadNewsFromFeeds: the allowFallback parameter (part_003)
  fallbackCount, \* loadNewsFromFeeds: the fallbackCount parameter, a number
  limit,         \* GET: searchParams.get("limit"); <<>> is null
  feedIdx,       \* the index in FEEDS of the feed the loop reads next
  delivered,     \* the number of items the feeds have delivered so far
  arrived,       \* the items delivered so far, each with the index of its feed
  failures,      \* the number of feeds whose fetch or parse has thrown
  seen,          \* loadNewsFromFeeds: the seen set (part_003)
  hits,          \* loadNewsFromFeeds: the hits array
  raw,           \* loadNewsFromFeeds: the raw array
  news,          \* the array loadNewsFromFeeds returned
  types,         \* GET: the types array parsed from ?types=
  response,      \* GET: the body of the Response; <<>> before there is one
  timer,         \* parseWithTimeout (part_001): the timeout "to" is "off"
                 \* (none set, or cleared), "armed" or "fired"
  aborted,       \* parseWithTimeout: controller.signal.aborted
  fpc,           \* "idle"; "request" (GET runs); "loop" and "returned"
                 \* (loadNewsFromFeeds runs, has returned); "responded"
  page,          \* the dashboard component that is rendered; "none"
  mounted,       \* the component is mounted and its first effect has run
  timeFilter,    \* the timeFilter state of the dashboard
  autoFetch,     \* the autoFetch state of the dashboard
  loading,       \* the loading state of the dashboard
  tag,           \* the tag state of the dashboard
  toast,         \* the toast state of the dashboard
  live,          \* the three lists of live data the dashboard holds
  dataMode,      \* the dataMode state of DashboardPrototype
  answer,        \* the body DashboardPrototype was answered with; <<>>
  inflight,      \* the requests to /api/items that have no response yet
  issued,        \* the number of requests issued so far
  succeeded,     \* the numbers of the requests that were answered with data
  shown          \* the number of the request whose data live holds; 0

quoteVars ==
  <<title, content, pc, scored, fragments, attributed, stripped, sentences,
    candidates, quote, previous>>

feedVars ==
  <<variant, keywords, allowFallback, fallbackCount, limit, feedIdx, delivered,
    arrived, failures, seen, hits, raw, news, types, response, timer,
    aborted, fpc>>

uiVars ==
  <<page, mounted, timeFilter, autoFetch, loading, tag, toast, live,
    dataMode, answer, inflight, issued, succeeded, shown>>

vars == <<quoteVars, feedVars, uiVars>>

NoCandidate == [text |-> <<>>, score |-> 0, reason |-> <<>>]

\* No article is at hand.
QuoteIdle ==
  /\ title = <<>>
  /\ content = <<>>
  /\ pc = "idle"
  /\ scored = NoCandidate
  /\ fragments = <<>>
  /\ attributed = <<>>
  /\ stripped = <<>>
  /\ sentences = <<>>
  /\ candidates = <<>>
  /\ quote = <<>>
  /\ previous = <<>>

\* No request is at hand.
FeedIdle ==
  /\ variant = "part_001"
  /\ keywords = <<>>
  /\ allowFallback = FALSE
  /\ fallbackCount = Num(0)
  /\ limit = <<>>
  /\ feedIdx = 0
  /\ delivered = 0
  /\ arrived = <<>>
  /\ failures = 0
  /\ seen = {}
  /\ hits = <<>>
  /\ raw = <<>>
  /\ news = <<>>
  /\ types = <<>>
  /\ response = <<>>
  /\ timer = "off"
  /\ aborted = FALSE
  /\ fpc = "idle"

NoItems == [news |-> <<>>, events |-> <<>>, quotes |-> <<>>]

\* No dashboard is rendered.
UiIdle ==
  /\ page = "none"
  /\ mounted = FALSE
  /\ timeFilter = ""
  /\ autoFetch = FALSE
  /\ loading = FALSE
  /\ tag = ""
  /\ toast = ""
  /\ live = NoItems
  /\ dataMode = ""
  /\ answer = <<>>
  /\ inflight = {}
  /\ issued = 0
  /\ succeeded = {}
  /\ shown = 0

\* ---- the quote engine, applied to one article
Init ==
  /\ title \in Titles
  /\ content \in Contents
  /\ pc = "input"
  /\ scored = NoCandidate
  /\ fragments = <<>>
  /\ attributed = <<>>
  /\ stripped = <<>>
  /\ sentences = <<>>
  /\ candidates = <<>>
  /\ quote = <<>>
  /\ previous = <<>>
  /\ FeedIdle
  /\ UiIdle

ScoreSentence ==
  /\ pc = "input"
  /\ scored' = scoreSentence(content)
  /\ pc' = "scoreSentence"
  /\ UNCHANGED <<previous, title, content, fragments, attributed, stripped, sentences,
                 candidates, quote>>
  /\ UNCHANGED feedVars
  /\ UNCHANGED uiVars

ExtractQuotedFragments ==
  /\ pc = "input"
  /\ fragments' = extractQuotedFragments(content)
  /\ pc' = "extractQuotedFragments"
  /\ UNCHANGED <<previous, title, content, scored, attributed, stripped, sentences,
                 candidates, quote>>
  /\ UNCHANGED feedVars
  /\ UNCHANGED uiVars

ExtractAttributedFragments ==
  /\ pc = "input"
  /\ attributed' = extractAttributedFragments(content)
  /\ pc' = "extractAttributedFragments"
  /\ UNCHANGED <<previous, title, content, scored, fragments, stripped, sentences,
                 candidates, quote>>
  /\ UNCHANGED feedVars
  /\ UNCHANGED uiVars

StripHtmlSimple ==
  /\ pc = "input"
  /\ stripped' = stripHtmlSimple(content)
  /\ pc' = "stripHtmlSimple"
  /\ UNCHANGED <<previous, title, content, scored, fragments, attributed, sentences,
                 candidates, quote>>
  /\ UNCHANGED feedVars
  /\ UNCHANGED uiVars

SplitSentences ==
  /\ pc = "input"
  /\ sentences' = splitSentences(content)
  /\ pc' = "splitSentences"
  /\ UNCHANGED <<previous, title, content, scored, fragments, attributed, stripped,
                 candidates, quote>>
  /\ UNCHANGED feedVars
  /\ UNCHANGED uiVars

\* GenerateQuoteFromArticle with the candidates array kept by the module
\* and not made anew by each call: the candidates of the call before are
\* still in it.
GenerateQuoteFromArticle_sharedCandidates ==
  /\ pc = "input"
  /\ candidates' =
       LET kept(p) ==
             IF Len(p) = 0 \/ p[1].fn # "generateQuoteFromArticle" THEN <<>>
             ELSE collectCandidates(
                    stripHtmlSimple(rawOf(p[1].title, p[1].content)))
       IN  sortCandidates(
             kept(previous)
               \o collectCandidates(stripHtmlSimple(rawOf(title, content))))
  /\ quote' = IF Len(candidates') = 0 THEN <<>>
              ELSE <<[candidates'[1] EXCEPT !.text = truncateQuote(@)]>>
  /\ pc' = "generateQuoteFromArticle"
  /\ UNCHANGED <<previous, title, content, scored, fragments, attributed,
                 stripped, sentences>>
  /\ UNCHANGED feedVars
  /\ UNCHANGED uiVars

GenerateQuoteFromArticle ==
  /\ pc = "input"
  /\ candidates' =
       sortCandidates(collectCandidates(stripHtmlSimple(rawOf(title, content))))
  /\ quote' = generateQuoteFromArticle(title, content)
  /\ pc' = "generateQuoteFromArticle"
  /\ UNCHANGED <<previous, title, content, scored, fragments, attributed, stripped,
                 sentences>>
  /\ UNCHANGED feedVars
  /\ UNCHANGED uiVars

Next ==
  \/ ScoreSentence
  \/ ExtractQuotedFragments
  \/ ExtractAttributedFragments
  \/ StripHtmlSimple
  \/ SplitSentences
  \/ GenerateQuoteFromArticle

Spec == Init /\ [][Next]_vars

\* ---- the quote engine, called again and again
\* The contents of the calls: no text, or one piece.
CallContents == {<<>>} \cup Pieces

\* The first call.
CallsInit ==
  /\ Init
  /\ content \in CallContents

\* What the function that ran has returned.
resultOfCall ==
  CASE pc = "splitSentences" -> sentences
    [] pc = "extractQuotedFragments" -> fragments
    [] pc = "generateQuoteFromArticle" -> quote

\* The function has returned and the caller calls again, with any input.
\* The locals of the call that ended are gone; nothing else was written.
NextCall ==
  /\ pc \in {"splitSentences", "extractQuotedFragments",
              "generateQuoteFromArticle"}
  /\ previous' = <<[fn |-> pc, title |-> title, content |-> content,
                    result |-> resultOfCall]>>
  /\ title' \in Titles
  /\ content' \in CallContents
  /\ pc' = "input"
  /\ scored' = NoCandidate
  /\ fragments' = <<>>
  /\ attributed' = <<>>
  /\ stripped' = <<>>
  /\ sentences' = <<>>
  /\ candidates' = <<>>
  /\ quote' = <<>>
  /\ UNCHANGED feedVars
  /\ UNCHANGED uiVars

CallsNext ==
  \/ SplitSentences
  \/ ExtractQuotedFragments
  \/ GenerateQuoteFromArticle
  \/ NextCall

CallsSpec == CallsInit /\ [][CallsNext]_vars

\* ---- loadNewsFromFeeds, called by GET
FeedInit ==
  /\ QuoteIdle
  /\ UiIdle
  /\ variant \in Variants
  /\ keywords \in KeywordLists(variant)
  /\ allowFallback \in (IF variant = "part_003" THEN BOOLEAN ELSE {TRUE})
  /\ fallbackCount \in FallbackCounts(variant)
  /\ limit = <<>>
  /\ feedIdx = 1
  /\ delivered = 0
  /\ arrived = <<>>
  /\ failures = 0
  /\ seen = {}
  /\ hits = <<>>
  /\ raw = <<>>
  /\ news = <<>>
  /\ types = <<>>
  /\ response = <<>>
  /\ timer = "off"
  /\ aborted = FALSE
  /\ fpc = "loop"

\* The item lists a feed may deliver when n items are still to come.
ItemLists(n) == UNION {[1..k -> ItemPool] : k \in 0..n}

\* One turn of "for (const feedUrl of FEEDS)" whose feed is read and parsed.
ReadFeed ==
  /\ fpc = "loop"
  /\ feedIdx <= Len(FEEDS(variant))
  /\ \E items \in ItemLists(MaxItems - delivered) :
       LET acc == addItems(variant, keywords, domainOf(FEEDS(variant)[feedIdx]),
                           [seen |-> seen, raw |-> raw, hits |-> hits], items)
       IN  /\ seen' = acc.seen
           /\ raw' = acc.raw
           /\ hits' = acc.hits
           /\ delivered' = delivered + Len(items)
           /\ arrived' = arrived \o [k \in 1..Len(items) |->
                                       [feed |-> feedIdx, item |-> items[k]]]
  /\ feedIdx' = feedIdx + 1
  /\ UNCHANGED <<variant, keywords, allowFallback, fallbackCount, limit, failures,
                 news, types, response, fpc>>
  /\ timer' = "off"
  /\ UNCHANGED aborted
  /\ UNCHANGED quoteVars
  /\ UNCHANGED uiVars

\* FeedFails with the exception ending the loop: no later feed is read.
FeedFails_abort ==
  /\ fpc = "loop"
  /\ feedIdx <= Len(FEEDS(variant))
  /\ feedIdx' = Len(FEEDS(variant)) + 1
  /\ failures' = failures + 1
  /\ UNCHANGED <<variant, keywords, allowFallback, fallbackCount, limit, delivered,
                 arrived, seen, hits, raw, news, types, response, fpc>>
  /\ timer' = "off"
  /\ UNCHANGED aborted
  /\ UNCHANGED quoteVars
  /\ UNCHANGED uiVars

\* One turn whose fetch or parse throws: catch { continue; }.
FeedFails ==
  /\ fpc = "loop"
  /\ feedIdx <= Len(FEEDS(variant))
  /\ feedIdx' = feedIdx + 1
  /\ failures' = failures + 1
  /\ UNCHANGED <<variant, keywords, allowFallback, fallbackCount, limit, delivered,
                 arrived, seen, hits, raw, news, types, response, fpc>>
  /\ timer' = "off"
  /\ UNCHANGED aborted
  /\ UNCHANGED quoteVars
  /\ UNCHANGED uiVars

\* After the loop: both arrays are sorted and the result is returned.
ReturnNews ==
  /\ fpc = "loop"
  /\ feedIdx > Len(FEEDS(variant))
  /\ hits' = sortByDateDesc(hits)
  /\ raw' = sortByDateDesc(raw)
  /\ news' = resultOf(variant, allowFallback, fallbackCount, hits, raw)
  /\ fpc' = "returned"
  /\ UNCHANGED <<variant, keywords, allowFallback, fallbackCount, limit, feedIdx,
                 delivered, arrived, failures, seen, types, response>>
  /\ UNCHANGED <<timer, aborted>>
  /\ UNCHANGED quoteVars
  /\ UNCHANGED uiVars

FeedNext == ReadFeed \/ FeedFails \/ ReturnNews

FeedSpec == FeedInit /\ [][FeedNext]_vars

\* ---- GET /api/items
\* The types arrays a request may carry: none (?types= absent), news, or
\* the two other collections.
TypesLists == {<<>>, <<"news">>, <<"events", "quotes">>}

\* wantsNews of GET; part_003 reads no ?types= and always loads the news.
wantsNews(v, ts) ==
  IF v = "part_003" THEN TRUE
  ELSE Len(ts) = 0 \/ \E i \in 1..Len(ts) : ts[i] = "news"

\* The limit bounds of GET.
MinLimit == 1
MaxLimit == 50

\* The fallbackCount GET passes to loadNewsFromFeeds: part_001 passes none
\* and the default of the parameter applies.
fallbackCountOf(v, lim) ==
  IF v = "part_001" THEN Num(DefaultFallbackCount)
  ELSE MathMax(Num(MinLimit),
               MathMin(Num(MaxLimit),
                       IF lim = <<>> THEN Num(DefaultFallbackCount)
                       ELSE Number(lim[1])))

\* A request has arrived: the default keywords, a ?limit= or none, and
\* ?fallback=1 or none in part_003.
GetInit ==
  /\ QuoteIdle
  /\ UiIdle
  /\ variant \in Variants
  /\ types \in TypesLists
  /\ keywords = defaultKeywords(variant)
  /\ allowFallback \in (IF variant = "part_003" THEN BOOLEAN ELSE {TRUE})
  /\ fallbackCount = Num(0)
  /\ limit \in LimitParams(variant)
  /\ feedIdx = 1
  /\ delivered = 0
  /\ arrived = <<>>
  /\ failures = 0
  /\ seen = {}
  /\ hits = <<>>
  /\ raw = <<>>
  /\ news = <<>>
  /\ response = <<>>
  /\ timer = "off"
  /\ aborted = FALSE
  /\ fpc = "request"

\* GET up to its await: loadNewsFromFeeds is called when the news are
\* wanted, and the body is built with news = [] when they are not.
GET ==
  /\ fpc = "request"
  /\ fallbackCount' = fallbackCountOf(variant, limit)
  /\ IF wantsNews(variant, types)
     THEN /\ fpc' = "loop"
          /\ response' = response
     ELSE /\ fpc' = "responded"
          /\ response' = <<[news |-> <<>>, events |-> <<>>, quotes |-> <<>>]>>
  /\ UNCHANGED <<variant, keywords, allowFallback, limit, feedIdx,
                 delivered, arrived, failures, seen, hits, raw, news, types>>
  /\ UNCHANGED <<timer, aborted>>
  /\ UNCHANGED quoteVars
  /\ UNCHANGED uiVars

\* GET after loadNewsFromFeeds has returned: the body is built.
Respond ==
  /\ fpc = "returned"
  /\ response' = <<[news |-> news, events |-> <<>>, quotes |-> <<>>]>>
  /\ fpc' = "responded"
  /\ UNCHANGED <<variant, keywords, allowFallback, fallbackCount, limit, feedIdx,
                 delivered, arrived, failures, seen, hits, raw, news, types>>
  /\ UNCHANGED <<timer, aborted>>
  /\ UNCHANGED quoteVars
  /\ UNCHANGED uiVars

GetNext == GET \/ ReadFeed \/ FeedFails \/ ReturnNews \/ Respond

GetSpec == GetInit /\ [][GetNext]_vars

\* ---- loadNewsFromFeeds of part_001, with the timeout of parseWithTimeout
\* The delay of the timeout, in milliseconds.
TimeoutMs == 12000

\* loadNewsFromFeeds of part_001 is called with the default keywords.
TimeoutInit ==
  /\ FeedInit
  /\ variant = "part_001"
  /\ keywords = defaultKeywords(variant)

\* parseWithTimeout up to its await: a new controller, the timeout is set,
\* and parser.parseURL(feedUrl) is called with the URL alone.
ParseWithTimeout ==
  /\ fpc = "loop"
  /\ feedIdx <= Len(FEEDS(variant))
  /\ timer = "off"
  /\ timer' = "armed"
  /\ aborted' = FALSE
  /\ UNCHANGED <<variant, keywords, allowFallback, fallbackCount, limit,
                 feedIdx, delivered, arrived, failures, seen, hits, raw, news,
                 types, response, fpc>>
  /\ UNCHANGED quoteVars
  /\ UNCHANGED uiVars

\* TimeoutMs after it was set the timeout runs its callback:
\* controller.abort(). The signal of the controller was handed to nobody,
\* so the call of parser.parseURL is as it was.
TimerFires ==
  /\ timer = "armed"
  /\ timer' = "fired"
  /\ aborted' = TRUE
  /\ UNCHANGED <<variant, keywords, allowFallback, fallbackCount, limit,
                 feedIdx, delivered, arrived, failures, seen, hits, raw, news,
                 types, response, fpc>>
  /\ UNCHANGED quoteVars
  /\ UNCHANGED uiVars

\* parser.parseURL resolves: finally clears the timeout and the items are
\* read.
ParseResolves == timer # "off" /\ ReadFeed

\* parser.parseURL rejects: finally clears the timeout and catch goes on
\* to the next feed.
ParseRejects == timer # "off" /\ FeedFails

\* The loop has ended and no call is awaited.
LoadReturns == timer = "off" /\ ReturnNews

TimeoutNext ==
  ParseWithTimeout \/ TimerFires \/ ParseResolves \/ ParseRejects \/ LoadReturns

\* The steps of the program and of the timer are taken when they can be;
\* whether and when parser.parseURL settles is up to the feed.
TimeoutSpec ==
  /\ TimeoutInit
  /\ [][TimeoutNext]_vars
  /\ WF_vars(ParseWithTimeout)
  /\ WF_vars(TimerFires)
  /\ WF_vars(LoadReturns)

\* ------------------------------------------------------------ the dashboards
\* The records of the responses: a news item has entities, an event and a
\* quote have tags.
NEWS_KEMENHUB == [id |-> "n1", entities |-> <<"Kemenhub">>]
NEWS_BANDARA == [id |-> "n2", entities |-> <<"Bandara">>]
EVENT_PELABUHAN == [id |-> "e1", tags |-> <<"Pelabuhan">>]
QUOTE_MENHUB == [id |-> "q1", tags |-> <<"Kemenhub">>]

\* The bodies /api/items may answer with: three arrays.
Bodies ==
  [news : {<<>>, <<NEWS_KEMENHUB>>, <<NEWS_BANDARA>>},
   events : {<<>>, <<EVENT_PELABUHAN>>},
   quotes : {<<>>, <<QUOTE_MENHUB>>}]

\* The most requests one dashboard issues.
MaxRequests == 3

ToastUpdated == "Data diperbarui"
ToastFailed == "Gagal mengambil data. Coba lagi."

\* No dashboard state of another component is in use.
OtherPagesIdle ==
  /\ QuoteIdle
  /\ FeedIdle
  /\ dataMode = ""
  /\ answer = <<>>

\* ---- Dashboard (src/app/api/items/route.ts)
TimeFilters == {"24h", "7d", "30d", "90d"}

RANGE_TO_HOURS ==
  [f \in TimeFilters |->
     CASE f = "24h" -> 24 [] f = "7d" -> 24 * 7 [] f = "30d" -> 24 * 30
       [] f = "90d" -> 24 * 90]

\* The bodies Dashboard is answered with.
DashBodies ==
  {b \in Bodies : b.events = <<>> /\ b.quotes = <<>> /\ b.news # <<>>}

\* The state of Dashboard after useState, before its effect has run.
DashInit ==
  /\ OtherPagesIdle
  /\ page = "Dashboard"
  /\ mounted = FALSE
  /\ timeFilter = "24h"
  /\ autoFetch = TRUE
  /\ loading = FALSE
  /\ tag = "All"
  /\ toast = ""
  /\ live = NoItems
  /\ inflight = {}
  /\ issued = 0
  /\ succeeded = {}
  /\ shown = 0

\* doFetch(hours) up to its await: loading is set and the request is sent.
doFetch(hours) ==
  /\ issued < MaxRequests
  /\ loading' = TRUE
  /\ issued' = issued + 1
  /\ inflight' = inflight \cup {[id |-> issued + 1, hours |-> hours]}

\* The effect on [timeFilter, autoFetch], run with the values auto and
\* range of the render it belongs to.
fetchEffect(auto, range) ==
  IF auto THEN doFetch(RANGE_TO_HOURS[range])
  ELSE UNCHANGED <<loading, issued, inflight>>

\* The component is mounted and the effect runs for the first time.
DashMount ==
  /\ page = "Dashboard"
  /\ ~mounted
  /\ mounted' = TRUE
  /\ fetchEffect(autoFetch, timeFilter)
  /\ UNCHANGED <<page, timeFilter, autoFetch, tag, toast, live, dataMode, answer,
                 succeeded, shown>>
  /\ UNCHANGED <<quoteVars, feedVars>>

\* The select of the time range is changed; the effect runs after the
\* render.
DashSetTimeFilter ==
  /\ page = "Dashboard"
  /\ mounted
  /\ \E v \in TimeFilters \ {timeFilter} :
       /\ timeFilter' = v
       /\ fetchEffect(autoFetch, v)
  /\ UNCHANGED <<page, mounted, autoFetch, tag, toast, live, dataMode, answer,
                 succeeded, shown>>
  /\ UNCHANGED <<quoteVars, feedVars>>

\* The Auto Fetch chip is clicked; the effect runs after the render.
DashToggleAutoFetch ==
  /\ page = "Dashboard"
  /\ mounted
  /\ autoFetch' = ~autoFetch
  /\ fetchEffect(~autoFetch, timeFilter)
  /\ UNCHANGED <<page, mounted, timeFilter, tag, toast, live, dataMode, answer,
                 succeeded, shown>>
  /\ UNCHANGED <<quoteVars, feedVars>>

\* The button "Ambil Data Sekarang", which is disabled while loading.
DashClickFetch ==
  /\ page = "Dashboard"
  /\ mounted
  /\ ~loading
  /\ doFetch(RANGE_TO_HOURS[timeFilter])
  /\ UNCHANGED <<page, mounted, timeFilter, autoFetch, tag, toast, live,
                 dataMode, answer, succeeded, shown>>
  /\ UNCHANGED <<quoteVars, feedVars>>

\* doFetch after its awaits, with an ok response: the three lists are set,
\* then finally.
DashFetchOk ==
  /\ page = "Dashboard"
  /\ \E r \in inflight, body \in DashBodies :
       /\ inflight' = inflight \ {r}
       /\ live' = body
       /\ succeeded' = succeeded \cup {r.id}
       /\ shown' = r.id
  /\ toast' = ToastUpdated
  /\ loading' = FALSE
  /\ UNCHANGED <<page, mounted, timeFilter, autoFetch, tag, dataMode, answer, issued>>
  /\ UNCHANGED <<quoteVars, feedVars>>

\* doFetch after its awaits, when fetch rejects, the response is not ok or
\* its body is no JSON: catch, then finally.
DashFetchFails ==
  /\ page = "Dashboard"
  /\ \E r \in inflight : inflight' = inflight \ {r}
  /\ toast' = ToastFailed
  /\ loading' = FALSE
  /\ UNCHANGED <<page, mounted, timeFilter, autoFetch, tag, live, dataMode, answer,
                 issued, succeeded, shown>>
  /\ UNCHANGED <<quoteVars, feedVars>>

\* A timeout set with the toast runs: setToast("").
DashToastTimer ==
  /\ page = "Dashboard"
  /\ toast # ""
  /\ toast' = ""
  /\ UNCHANGED <<page, mounted, timeFilter, autoFetch, loading, tag, live,
                 dataMode, answer, inflight, issued, succeeded, shown>>
  /\ UNCHANGED <<quoteVars, feedVars>>

DashNext ==
  \/ DashMount
  \/ DashSetTimeFilter
  \/ DashToggleAutoFetch
  \/ DashClickFetch
  \/ DashFetchOk
  \/ DashFetchFails
  \/ DashToastTimer

DashSpec == DashInit /\ [][DashNext]_vars

\* ---- DashboardLive (src/unnamed/part_005)
DayFilters == {"1", "7", "30", "90"}

\* tagsUniverse: All, and every entity and tag of the three lists.
tagsUniverse(data) ==
  {"All"}
    \cup UNION {{data.news[i].entities[k] : k \in 1..Len(data.news[i].entities)} :
                 i \in 1..Len(data.news)}
    \cup UNION {{data.events[i].tags[k] : k \in 1..Len(data.events[i].tags)} :
                 i \in 1..Len(data.events)}
    \cup UNION {{data.quotes[i].tags[k] : k \in 1..Len(data.quotes[i].tags)} :
                 i \in 1..Len(data.quotes)}

\* The bodies DashboardLive is answered with: news alone, or nothing.
LiveBodies == {b \in Bodies : b.events = <<>> /\ b.quotes = <<>>}

\* The state of DashboardLive after useState; it has no effect to run.
LiveInit ==
  /\ OtherPagesIdle
  /\ page = "DashboardLive"
  /\ mounted = TRUE
  /\ timeFilter = "7"
  /\ autoFetch = FALSE
  /\ loading = FALSE
  /\ tag = "All"
  /\ toast = ""
  /\ live = NoItems
  /\ inflight = {}
  /\ issued = 0
  /\ succeeded = {}
  /\ shown = 0

\* fetchData up to its await. The function belongs to the render that is
\* on screen when the handler runs: the timeFilter in its URL and the
\* tagsUniverse it will test the tag against are those of that render.
fetchData ==
  /\ issued < MaxRequests
  /\ loading' = TRUE
  /\ issued' = issued + 1
  /\ inflight' = inflight \cup {[id |-> issued + 1, days |-> timeFilter,
                                  universe |-> tagsUniverse(live)]}

\* The button "Ambil Data (Fetch)".
LiveClickFetch ==
  /\ page = "DashboardLive"
  /\ fetchData
  /\ UNCHANGED <<page, mounted, timeFilter, autoFetch, tag, toast, live,
                 dataMode, answer, succeeded, shown>>
  /\ UNCHANGED <<quoteVars, feedVars>>

\* handleAutoFetchChange(next), next being the new state of the checkbox.
LiveAutoFetchChange ==
  /\ page = "DashboardLive"
  /\ autoFetch' = ~autoFetch
  /\ IF ~autoFetch THEN fetchData ELSE UNCHANGED <<loading, issued, inflight>>
  /\ UNCHANGED <<page, mounted, timeFilter, tag, toast, live, dataMode, answer,
                 succeeded, shown>>
  /\ UNCHANGED <<quoteVars, feedVars>>

\* onChangeTimeRange(v), v being the option that was selected.
LiveChangeTimeRange ==
  /\ page = "DashboardLive"
  /\ \E v \in DayFilters \ {timeFilter} : timeFilter' = v
  /\ IF autoFetch THEN fetchData ELSE UNCHANGED <<loading, issued, inflight>>
  /\ UNCHANGED <<page, mounted, autoFetch, tag, toast, live, dataMode, answer,
                 succeeded, shown>>
  /\ UNCHANGED <<quoteVars, feedVars>>

\* A button of the tag panel: one of tagsUniverse, All among them.
LiveSetTag ==
  /\ page = "DashboardLive"
  /\ \E t \in tagsUniverse(live) \ {tag} : tag' = t
  /\ UNCHANGED <<page, mounted, timeFilter, autoFetch, loading, toast, live,
                 dataMode, answer, inflight, issued, succeeded, shown>>
  /\ UNCHANGED <<quoteVars, feedVars>>

\* fetchData after its awaits, with a body that is JSON: the lists are set,
\* the tag is tested against the tagsUniverse of the call, then finally.
LiveFetchOk ==
  /\ page = "DashboardLive"
  /\ \E r \in inflight, body \in LiveBodies :
       /\ inflight' = inflight \ {r}
       /\ live' = body
       /\ tag' = IF tag = "All" THEN tag
                 ELSE IF tag \in r.universe THEN tag ELSE "All"
       /\ succeeded' = succeeded \cup {r.id}
       /\ shown' = r.id
  /\ loading' = FALSE
  /\ UNCHANGED <<page, mounted, timeFilter, autoFetch, toast, dataMode, answer,
                 issued>>
  /\ UNCHANGED <<quoteVars, feedVars>>

\* fetchData after its awaits, when fetch rejects or the body is no JSON:
\* catch, then finally.
LiveFetchFails ==
  /\ page = "DashboardLive"
  /\ \E r \in inflight : inflight' = inflight \ {r}
  /\ toast' = ToastFailed
  /\ loading' = FALSE
  /\ UNCHANGED <<page, mounted, timeFilter, autoFetch, tag, live, dataMode, answer,
                 issued, succeeded, shown>>
  /\ UNCHANGED <<quoteVars, feedVars>>

\* The timeout set with the toast runs: setToast("").
LiveToastTimer ==
  /\ page = "DashboardLive"
  /\ toast # ""
  /\ toast' = ""
  /\ UNCHANGED <<page, mounted, timeFilter, autoFetch, loading, tag, live,
                 dataMode, answer, inflight, issued, succeeded, shown>>
  /\ UNCHANGED <<quoteVars, feedVars>>

LiveNext ==
  \/ LiveClickFetch
  \/ LiveAutoFetchChange
  \/ LiveChangeTimeRange
  \/ LiveSetTag
  \/ LiveFetchOk
  \/ LiveFetchFails
  \/ LiveToastTimer

LiveSpec == LiveInit /\ [][LiveNext]_vars

\* ---- DashboardPrototype (src/app/page.tsx)
\* The mock data, each item with its id and its tags or entities.
sampleEvents ==
  << [id |-> "evt-001", tags |-> <<"Keselamatan", "Laut">>],
     [id |-> "evt-002", tags |-> <<"Darat", "Infrastruktur">>],
     [id |-> "evt-003", tags |-> <<"Green", "Kebijakan">>] >>

sampleNews ==
  << [id |-> "news-101",
      entities |-> <<"Menteri Perhubungan", "Integrasi Moda", "Kemacetan">>],
     [id |-> "news-102", entities |-> <<"Kemenhub", "Penerbangan", "Regulasi">>],
     [id |-> "news-103", entities |-> <<"Bus Listrik", "Perkotaan", "Emisi">>] >>

sampleQuotes ==
  << [id |-> "q-01", tags |-> <<"Keselamatan", "Kebijakan">>],
     [id |-> "q-02", tags |-> <<"Integrasi Moda", "Perkotaan">>],
     [id |-> "q-03", tags |-> <<"Green", "Pendanaan">>] >>

\* The lists the memos filter: the live list if it holds an item, else the
\* mock one.
shownNews == IF Len(live.news) > 0 THEN live.news ELSE sampleNews
shownEvents == IF Len(live.events) > 0 THEN live.events ELSE sampleEvents
shownQuotes == IF Len(live.quotes) > 0 THEN live.quotes ELSE sampleQuotes

\* The state of DashboardPrototype after useState, before its effect.
ProtoInit ==
  /\ QuoteIdle
  /\ FeedIdle
  /\ page = "DashboardPrototype"
  /\ mounted = FALSE
  /\ timeFilter = "7d"
  /\ autoFetch = FALSE
  /\ loading = FALSE
  /\ tag = "All"
  /\ toast = ""
  /\ live = NoItems
  /\ dataMode = "MOCK"
  /\ answer = <<>>
  /\ inflight = {}
  /\ issued = 0
  /\ succeeded = {}
  /\ shown = 0

\* The effect runs, once: mounted = true and the request is sent.
ProtoMount ==
  /\ page = "DashboardPrototype"
  /\ ~mounted
  /\ issued = 0
  /\ mounted' = TRUE
  /\ issued' = 1
  /\ inflight' = {[id |-> 1]}
  /\ UNCHANGED <<page, timeFilter, autoFetch, loading, tag, toast, live,
                 dataMode, answer, succeeded, shown>>
  /\ UNCHANGED <<quoteVars, feedVars>>

\* The cleanup of the effect: mounted = false.
ProtoUnmount ==
  /\ page = "DashboardPrototype"
  /\ mounted
  /\ mounted' = FALSE
  /\ UNCHANGED <<page, timeFilter, autoFetch, loading, tag, toast, live,
                 dataMode, answer, inflight, issued, succeeded, shown>>
  /\ UNCHANGED <<quoteVars, feedVars>>

\* The select of the time range.
ProtoSetTimeFilter ==
  /\ page = "DashboardPrototype"
  /\ mounted
  /\ \E v \in TimeFilters \ {timeFilter} : timeFilter' = v
  /\ UNCHANGED <<page, mounted, autoFetch, loading, tag, toast, live,
                 dataMode, answer, inflight, issued, succeeded, shown>>
  /\ UNCHANGED <<quoteVars, feedVars>>

\* ProtoFetchOk with dataMode LIVE for every body, the empty ones too.
ProtoFetchOk_alwaysLive ==
  /\ page = "DashboardPrototype"
  /\ \E r \in inflight, body \in Bodies :
       /\ inflight' = inflight \ {r}
       /\ answer' = <<body>>
       /\ succeeded' = succeeded \cup {r.id}
       /\ IF mounted
          THEN /\ live' =
                    [news |-> IF Len(body.news) > 0 THEN body.news ELSE live.news,
                     events |-> IF Len(body.events) > 0 THEN body.events
                                ELSE live.events,
                     quotes |-> IF Len(body.quotes) > 0 THEN body.quotes
                                ELSE live.quotes]
               /\ dataMode' = "LIVE"
               /\ shown' = r.id
          ELSE UNCHANGED <<live, dataMode, shown>>
  /\ UNCHANGED <<page, mounted, timeFilter, autoFetch, loading, tag, toast,
                 issued>>
  /\ UNCHANGED <<quoteVars, feedVars>>

\* The async function of the effect after its awaits, with an ok response:
\* nothing is set when the component is unmounted; else every list of the
\* body that holds an item is set, and dataMode is LIVE when the three
\* lengths add up to more than 0 and MOCK when not.
ProtoFetchOk ==
  /\ page = "DashboardPrototype"
  /\ \E r \in inflight, body \in Bodies :
       /\ inflight' = inflight \ {r}
       /\ answer' = <<body>>
       /\ succeeded' = succeeded \cup {r.id}
       /\ IF mounted
          THEN /\ live' =
                    [news |-> IF Len(body.news) > 0 THEN body.news ELSE live.news,
                     events |-> IF Len(body.events) > 0 THEN body.events
                                ELSE live.events,
                     quotes |-> IF Len(body.quotes) > 0 THEN body.quotes
                                ELSE live.quotes]
               /\ dataMode' =
                    IF Len(body.news) + Len(body.events) + Len(body.quotes) > 0
                    THEN "LIVE" ELSE "MOCK"
               /\ shown' = r.id
          ELSE UNCHANGED <<live, dataMode, shown>>
  /\ UNCHANGED <<page, mounted, timeFilter, autoFetch, loading, tag, toast,
                 issued>>
  /\ UNCHANGED <<quoteVars, feedVars>>

\* The async function after its awaits, when fetch rejects, the status is
\* bad or the body is no JSON: catch sets MOCK if still mounted.
ProtoFetchFails ==
  /\ page = "DashboardPrototype"
  /\ \E r \in inflight : inflight' = inflight \ {r}
  /\ dataMode' = IF mounted THEN "MOCK" ELSE dataMode
  /\ UNCHANGED <<page, mounted, timeFilter, autoFetch, loading, tag, toast,
                 live, answer, issued, succeeded, shown>>
  /\ UNCHANGED <<quoteVars, feedVars>>

ProtoNext ==
  \/ ProtoMount
  \/ ProtoUnmount
  \/ ProtoSetTimeFilter
  \/ ProtoFetchOk
  \/ ProtoFetchFails

ProtoSpec == ProtoInit /\ [][ProtoNext]_vars

\* ------------------------------------------------- claims: the quote engine
\* The normalized text generateQuoteFromArticle works on.
articleText == stripHtmlSimple(rawOf(title, content))

\* The candidate that was returned, and its tier (the last reason pushed).
returned == quote[1]
tierOf(c) == c.reason[Len(c.reason)]

Generated == pc = "generateQuoteFromArticle"

\* The triggered signals of a fragment, each decided on the fragment alone.
signalsOf(s) ==
  LET text == cleanSpaces(s)
      t    == toLowerCase(text)
  IN  {n \in {"direct-quotes", "mentions-menhub", "speech-verb",
              "good-length", "contentful"} :
         \/ n = "direct-quotes" /\ (hasQuote(text, LDQ, RDQ) \/ hasQuote(text, DQ, DQ))
         \/ n = "mentions-menhub" /\ mentionsMenhub(t)
         \/ n = "speech-verb" /\ hasSayVerb(t)
         \/ n = "good-length" /\ Len(text) \in GoodLenMin..GoodLenMax
         \/ n = "contentful" /\ isContentful(text, t)}

weightOf(n) ==
  CASE n = "direct-quotes" -> 4
    [] n = "mentions-menhub" -> 3
    [] n = "speech-verb" -> 2
    [] n = "good-length" -> 2
    [] n = "contentful" -> 1

RECURSIVE sumWeights(_)
sumWeights(ns) ==
  IF ns = {} THEN 0
  ELSE LET n == CHOOSE m \in ns : TRUE
       IN  weightOf(n) + sumWeights(ns \ {n})

\* C1: the score scoreSentence returns is the sum of the weights of the
\* signals its fragment triggers, each decided on its own; it lies in 0..12,
\* reason lists exactly the triggered signals, each once, and a fragment that
\* triggers direct-quotes and the ministry mention alone scores 7.
C1_ScoreIsSumOfTriggeredSignals ==
  pc = "scoreSentence" =>
    LET on == signalsOf(content)
    IN  /\ scored.score = sumWeights(on)
        /\ scored.score \in 0..12
        /\ {scored.reason[i] : i \in 1..Len(scored.reason)} = on
        /\ Len(scored.reason) = Cardinality(on)
        /\ (on = {"direct-quotes", "mentions-menhub"} => scored.score = 7)

\* A fragment that triggers direct-quotes and the ministry mention alone has
\* been scored.
C1_Witness ==
  /\ pc = "scoreSentence"
  /\ signalsOf(content) = {"direct-quotes", "mentions-menhub"}
  /\ scored.score = 7

\* C2: whenever the normalized text holds an enclosed quotation of 8..400
\* characters, the quote returned comes from the direct-quote tier and never
\* from the attributed-sentence tier.
C2_DirectTierPreferred ==
  (Generated /\ Len(extractQuotedFragments(articleText)) > 0) =>
    /\ Len(quote) = 1
    /\ tierOf(returned) = "from-direct-fragment"
    /\ \E i \in 1..Len(extractQuotedFragments(articleText)) :
         returned.text = truncateQuote(extractQuotedFragments(articleText)[i])

\* C3 as claimed: an article without any alias of the ministry in its title
\* and its content yields no quote.
C3_NoAliasNoQuote ==
  (/\ Generated
   /\ ~mentionsMenhub(toLowerCase(title))
   /\ ~mentionsMenhub(toLowerCase(content))) => quote = <<>>

\* C3 as amended: when the normalized text of the article holds no alias of
\* the ministry, the result is null exactly when the text holds no enclosed
\* quotation of 8..400 characters, and a quote that is returned comes from
\* the direct-quote tier.
C3_NoAliasOnlyDirectQuotes ==
  (Generated /\ ~mentionsMenhub(toLowerCase(articleText))) =>
    /\ quote = <<>> <=> Len(extractQuotedFragments(articleText)) = 0
    /\ quote # <<>> => tierOf(returned) = "from-direct-fragment"

\* An article without an alias has yielded a quote.
C3_Witness ==
  /\ Generated
  /\ ~mentionsMenhub(toLowerCase(articleText))
  /\ quote # <<>>

\* C5: the candidate returned has the highest score of all the candidates
\* collected and, among those of that score, a text of the least length.
C5_BestScoreThenShortest ==
  (Generated /\ quote # <<>>) =>
    LET cs == collectCandidates(articleText)
    IN  \E b \in 1..Len(cs) :
          /\ returned = [cs[b] EXCEPT !.text = truncateQuote(@)]
          /\ \A i \in 1..Len(cs) :
               /\ cs[i].score <= cs[b].score
               /\ cs[i].score = cs[b].score => Len(cs[b].text) <= Len(cs[i].text)

\* Two candidates tie on the highest score, and the one collected first is
\* the longer one.
C5_Witness ==
  /\ Generated
  /\ quote # <<>>
  /\ LET cs == collectCandidates(articleText)
     IN  \E i, j \in 1..Len(cs) :
           /\ i < j
           /\ cs[i].score = returned.score
           /\ cs[j].score = returned.score
           /\ Len(cs[j].text) < Len(cs[i].text)

\* The text of the winner: candidates[0] after the sort.
bestText == candidates[1].text

\* C6 as claimed: a winner longer than 280 characters is returned as its
\* first 277 characters and one ellipsis, 278 characters in all; a winner of
\* at most 280 characters is returned unchanged.
C6_TruncatedTo278 ==
  (Generated /\ quote # <<>>) =>
    IF Len(bestText) > HardCap
    THEN /\ returned.text = SubSeq(bestText, 1, SliceLen) \o <<ELLIPSIS>>
         /\ Len(returned.text) = SliceLen + 1
    ELSE returned.text = bestText

\* C6 as amended: a winner longer than 280 characters is returned as its
\* first 277 characters, less the whitespace at their end, and one ellipsis:
\* 278 characters when the 277th is not whitespace and 277 when it is; a
\* winner of at most 280 characters is returned unchanged.
C6_TruncatedAndTrimmed ==
  (Generated /\ quote # <<>>) =>
    IF Len(bestText) > HardCap
    THEN IF IsSpace(bestText[SliceLen])
         THEN /\ returned.text = SubSeq(bestText, 1, SliceLen - 1) \o <<ELLIPSIS>>
              /\ Len(returned.text) = SliceLen
         ELSE /\ returned.text = SubSeq(bestText, 1, SliceLen) \o <<ELLIPSIS>>
              /\ Len(returned.text) = SliceLen + 1
    ELSE returned.text = bestText

\* A winner of 300 characters whose 277th character is a space was cut.
C6_Witness ==
  /\ Generated
  /\ quote # <<>>
  /\ Len(bestText) = HardCap + 20
  /\ IsSpace(bestText[SliceLen])
  /\ Len(returned.text) = SliceLen

\* C7: the text of every quote returned is 8..400 characters long.
C7_TextWithinBand ==
  (Generated /\ quote # <<>>) =>
    Len(returned.text) \in MinQuoteLen..MaxQuoteLen

\* A text that is one pair of matching quotation marks around characters
\* that are no quotation marks.
IsOnePair(text) ==
  /\ Len(text) >= 2
  /\ <<text[1], text[Len(text)]>> \in Styles
  /\ \A i \in 2..(Len(text) - 1) : text[i] \notin {DQ, LDQ, RDQ}

\* C8: of a text that is one pair of matching quotation marks around n
\* characters, extractQuotedFragments returns the enclosed fragment when
\* 8 <= n <= 400 and nothing otherwise.
C8_BandIsInclusive ==
  (pc = "extractQuotedFragments" /\ IsOnePair(content)) =>
    LET inner == SubSeq(content, 2, Len(content) - 1)
    IN  IF MinQuoteLen <= Len(inner) /\ Len(inner) <= MaxQuoteLen
        THEN fragments = <<cleanSpaces(inner)>>
        ELSE fragments = <<>>

\* A quotation of exactly 400 characters was extracted.
C8_Witness ==
  /\ pc = "extractQuotedFragments"
  /\ IsOnePair(content)
  /\ Len(content) = MaxQuoteLen + 2
  /\ Len(fragments) = 1

\* C9: extractQuotedFragments returns the fragments in the order in which
\* they open in the text, whatever their style, one entry for each.
C9_InOrderOfAppearance ==
  pc = "extractQuotedFragments" =>
    LET ms == quotedMatches(content)
    IN  /\ Len(fragments) = Len(ms)
        /\ \A i, j \in 1..Len(ms) : i < j => ms[i].at < ms[j].at

\* The text the reference article is expected to yield.
C10_EXPECTED ==
  <<"I","n","i"," ","a","d","a","l","a","h"," ","b","u","k","t","i"," ","k",
    "o","m","i","t","m","e","n"," ","k","a","m","i">>

\* C10: the article titled "Menhub resmikan terminal baru di Makassar hari
\* ini" whose summary is "Ini adalah bukti komitmen kami," kata Menhub yields
\* the quote Ini adalah bukti komitmen kami.
C10_ReferenceArticle ==
  (/\ Generated
   /\ title = TITLE_MENHUB
   /\ content = joinPieces(<<P_QUOTE, P_KATA_MENHUB>>)) =>
    /\ Len(quote) = 1
    /\ returned.text = C10_EXPECTED

\* The sentences of the article that qualify for the fallback tier: the
\* indexes, in splitSentences(articleText), of those that mention an alias
\* and are at least 30 characters long.
fallbackSentences ==
  LET sents == splitSentences(articleText)
  IN  {i \in 1..Len(sents) :
         /\ mentionsMenhub(toLowerCase(sents[i]))
         /\ Len(sents[i]) >= MinAttributedLen}

\* Both the direct-quote tier and the attributed-sentence tier are empty.
bothTiersEmpty ==
  /\ Len(extractQuotedFragments(articleText)) = 0
  /\ Len(extractAttributedFragments(articleText)) = 0

\* C11: a candidate of the fallback tier exists only when the direct-quote
\* tier and the attributed-sentence tier are both empty; the tier then gives
\* at most one candidate, the first sentence in text order that mentions an
\* alias and is at least 30 characters long, and when there is no such
\* sentence the result is null.
C11_FallbackOnlyWhenTiersEmpty ==
  Generated =>
    /\ (\E i \in 1..Len(candidates) :
          tierOf(candidates[i]) = "fallback-mentions-menhub") => bothTiersEmpty
    /\ bothTiersEmpty =>
         IF fallbackSentences = {}
         THEN candidates = <<>> /\ quote = <<>>
         ELSE /\ Len(candidates) = 1
              /\ tierOf(candidates[1]) = "fallback-mentions-menhub"
              /\ candidates[1].text =
                   cleanSpaces(splitSentences(articleText)[Min(fallbackSentences)])
              /\ Len(quote) = 1
              /\ returned.text = truncateQuote(candidates[1].text)

\* Both tiers were empty and two different sentences qualified for the
\* fallback: the first of them was returned.
C11_Witness ==
  /\ Generated
  /\ bothTiersEmpty
  /\ \E i, j \in fallbackSentences :
       /\ i < j
       /\ splitSentences(articleText)[i] # splitSentences(articleText)[j]
  /\ Len(quote) = 1
  /\ tierOf(returned) = "fallback-mentions-menhub"

\* The verb v stands in t as a word of its own: a space follows it, and it
\* opens t or a space precedes it.
standsAlone(t, v) ==
  \E i \in 1..(Len(t) - Len(v)) :
     /\ SubSeq(t, i, i + Len(v) - 1) = v
     /\ t[i + Len(v)] = " "
     /\ i = 1 \/ t[i - 1] = " "

\* The sentence mentions an alias, reports speech and is long enough.
isAttributed(s) ==
  /\ mentionsMenhub(toLowerCase(s))
  /\ \E v \in 1..Len(SAY_VERBS) : standsAlone(toLowerCase(s), SAY_VERBS[v])
  /\ Len(s) >= MinAttributedLen

\* C12: extractAttributedFragments returns exactly the sentences of the
\* segmented text that mention an alias, hold a speech verb as a word between
\* spaces or at the start of the sentence, and are at least 30 characters
\* long, in the order of the sentences.
C12_ExactlyAttributedSentences ==
  pc = "extractAttributedFragments" =>
    attributed = SelectSeq(splitSentences(content), isAttributed)

\* A sentence was kept for its alias and its speech verb.
C12_Witness ==
  /\ pc = "extractAttributedFragments"
  /\ Len(attributed) = 1
  /\ isAttributed(attributed[1])

boundariesOf(n) ==
  {p \in 2..(Len(n) - 1) :
     n[p] = " " /\ n[p - 1] \in SentenceEnd /\ n[p + 1] \in SentenceStart}

\* C14: for a non-empty input splitSentences returns at least one sentence,
\* the sentences joined by one space each are the whitespace-normalized
\* input, and without a boundary the result is the normalized input alone.
C14_SentencesRebuildInput ==
  (pc = "splitSentences" /\ Len(content) > 0) =>
    /\ Len(sentences) >= 1
    /\ joinPieces(sentences) = cleanSpaces(content)
    /\ boundariesOf(cleanSpaces(content)) = {} =>
         sentences = <<cleanSpaces(content)>>

\* An input was split at a boundary.
C14_Witness ==
  /\ pc = "splitSentences"
  /\ Len(sentences) = 2
  /\ boundariesOf(cleanSpaces(content)) # {}

\* ------------------------------------------------- claims: the feed loader
\* The record passes the keyword gate on its title and its summary.
matchesKeywords(rec) == matchKeywords(rec.title, rec.summary, keywords)

Returned == fpc = "returned"

\* C4 as claimed: no record of the collection loadNewsFromFeeds returns is
\* one whose title and summary match none of the keywords.
C4_OnlyMatchingItems ==
  Returned => \A i \in 1..Len(news) : matchesKeywords(news[i])

\* C4 as amended: a record whose title and summary match none of the
\* keywords is returned only in the fallback list, that is when the keyword
\* gate let no item of the feeds that were read into hits (and, in part_003,
\* the fallback is allowed); when the gate let an item in, every record
\* returned matches a keyword.
C4_MissesOnlyInFallback ==
  Returned =>
    \/ \A i \in 1..Len(news) : matchesKeywords(news[i])
    \/ /\ Len(hits) = 0
       /\ variant = "part_003" => allowFallback

\* The gate has kept one item and dropped another of the same run.
C4_Witness ==
  /\ Returned
  /\ Len(news) > 0
  /\ \A i \in 1..Len(news) : matchesKeywords(news[i])
  /\ \E j \in 1..Len(raw) : ~matchesKeywords(raw[j])

\* The arrays loadNewsFromFeeds builds from the items arr, taken in their
\* order, each by the feed that delivered it.
RECURSIVE loadArrived(_, _)
loadArrived(acc, arr) ==
  IF Len(arr) = 0 THEN acc
  ELSE loadArrived(addItem(variant, keywords,
                           domainOf(FEEDS(variant)[Head(arr).feed]),
                           acc, Head(arr).item),
                   Tail(arr))

\* What loadNewsFromFeeds returns for the items arr.
newsOf(arr) ==
  LET acc == loadArrived([seen |-> {}, raw |-> <<>>, hits |-> <<>>], arr)
  IN  resultOf(variant, allowFallback, fallbackCount, acc.hits, acc.raw)

\* C15: a feed whose fetch or parse fails adds no item and does not stop
\* the loop: the step that counts the failure leaves the arrays as they are
\* and moves to the next feed, and what is returned at the end, after every
\* feed had its turn, is computed from all the items of the feeds that were
\* read.
C15_FailureSkipsOneFeed ==
  /\ [][failures' > failures =>
          /\ feedIdx' = feedIdx + 1
          /\ fpc' = "loop"
          /\ <<raw', hits', seen'>> = <<raw, hits, seen>>]_vars
  /\ [](Returned =>
          /\ feedIdx = Len(FEEDS(variant)) + 1
          /\ news = newsOf(arrived))

\* The first two feeds failed, the third was read, and its item was
\* returned.
C15_Witness ==
  /\ Returned
  /\ failures = 2
  /\ Len(arrived) > 0
  /\ \A k \in 1..Len(arrived) : arrived[k].feed = 3
  /\ Len(news) > 0

\* C16: the ids of the records loadNewsFromFeeds returns are pairwise
\* distinct.
C16_IdsAreDistinct ==
  Returned =>
    \A i, j \in 1..Len(news) : news[i].id = news[j].id => i = j

\* The orders in which the items arr can arrive.
arrivalOrders(arr) ==
  {[i \in 1..Len(arr) |-> arr[f[i]]] :
     f \in {g \in [1..Len(arr) -> 1..Len(arr)] :
              \A a, b \in 1..Len(arr) : g[a] = g[b] => a = b}}

\* The records of a collection, as a set.
recordsOf(xs) == {xs[i] : i \in 1..Len(xs)}

\* C17: in whatever order the items arrive, loadNewsFromFeeds returns the
\* same set of records.
C17_OrderIndependent ==
  Returned =>
    \A p \in arrivalOrders(arrived) : recordsOf(newsOf(p)) = recordsOf(news)

\* C18: no record of the collection returned is followed by one with a
\* later publishedAt, in the hits and in the fallback list.
C18_SortedByDateDesc ==
  Returned =>
    \A i, j \in 1..Len(news) :
       i < j => news[i].publishedAt >= news[j].publishedAt

\* Two records arrived with the earlier one first, no item passed the
\* keyword gate, and the fallback list holds the later one first.
C18_Witness ==
  /\ Returned
  /\ Len(news) = 2
  /\ news[1].publishedAt > news[2].publishedAt
  /\ Len(arrived) = 2
  /\ arrived[1].item.pubDate < arrived[2].item.pubDate
  /\ Len(hits) = 0

\* C19: every item a feed delivered has its record, with or without a link
\* and a time that parses, and every publishedAt is a valid time.
C19_EveryItemYieldsRecord ==
  /\ \A k \in 1..Len(arrived) :
       \E i \in 1..Len(raw) :
          /\ raw[i].source = domainOf(FEEDS(variant)[arrived[k].feed])
          /\ raw[i].summary = arrived[k].item.contentSnippet
          /\ raw[i].title \in {arrived[k].item.title, PLACEHOLDER_TITLE}
  /\ \A i \in 1..Len(raw) : validDate(raw[i].publishedAt)

Responded == fpc = "responded"

\* C20: the body of the response holds the three collections, and news is
\* empty when the types of the request do not name it.
C20_UnselectedNewsEmpty ==
  Responded =>
    /\ Len(response) = 1
    /\ DOMAIN response[1] = {"news", "events", "quotes"}
    /\ (Len(types) > 0 /\ \A i \in 1..Len(types) : types[i] # "news") =>
         response[1].news = <<>>

\* ------------------------------------------------------ claims: the limits
\* C21: loadNewsFromFeeds never returns more records than the fallbackCount
\* it was called with, whether they are hits or the fallback list.
C21_NeverExceedsCount ==
  Returned => Len(news) <= toIntegerOrInfinity(fallbackCount)

\* GET has computed the fallbackCount it passes on from ?limit=.
LimitRead == variant # "part_001" /\ fpc # "request"

\* The fallback list was returned: no item matched, and the caller allowed
\* the fallback.
FellBack ==
  /\ Returned
  /\ Len(hits) = 0
  /\ variant = "part_003" => allowFallback

\* C25: whatever ?limit= holds, the fallbackCount GET computes is a number
\* from 1 to 50, and the fallback list over a raw list that is not empty
\* holds at least one record and at most fifty.
C25_CountWithinOneToFifty ==
  /\ LimitRead =>
        /\ ~fallbackCount.nan
        /\ fallbackCount.tenths >= 10 * MinLimit
        /\ fallbackCount.tenths <= 10 * MaxLimit
  /\ (LimitRead /\ FellBack /\ Len(raw) > 0) =>
        (Len(news) >= MinLimit /\ Len(news) <= MaxLimit)

\* ------------------------------------------------ claims: the fallback note
\* C24: in part_001 and part_002 every record returned either matches a
\* keyword and has no note, or has the note fallback_no_keyword_hits; a
\* record with the note is returned only when no item matched, and the
\* records are then the first fallbackCount of raw, the latest first, each
\* with the note added.
C24_NoteMarksFallback ==
  (Returned /\ variant # "part_003") =>
    /\ \A i \in 1..Len(news) :
         \/ news[i].note = "" /\ matchesKeywords(news[i])
         \/ news[i].note = FALLBACK_NOTE
    /\ (\E i \in 1..Len(news) : news[i].note = FALLBACK_NOTE) =>
         /\ Len(hits) = 0
         /\ Len(news) = Min({toIntegerOrInfinity(fallbackCount), Len(raw)})
         /\ \A i \in 1..Len(news) :
              news[i] = [raw[i] EXCEPT !.note = FALLBACK_NOTE]
         /\ \A i, j \in 1..Len(raw) :
              i < j => raw[i].publishedAt >= raw[j].publishedAt

\* Two items that match no keyword arrived, the earlier one first, with
\* fallbackCount 1: the later one alone was returned, with the note.
C24_Witness ==
  /\ Returned
  /\ variant = "part_002"
  /\ fallbackCount = Num(1)
  /\ Len(arrived) = 2
  /\ arrived[1].item.pubDate < arrived[2].item.pubDate
  /\ Len(raw) = 2
  /\ Len(news) = 1
  /\ news[1].note = FALLBACK_NOTE
  /\ news[1].publishedAt = arrived[2].item.pubDate

\* ----------------------------------------------------- claims: the timeout
\* C23: a feed whose fetch or parse does not complete is given up once the
\* timeout has fired: the awaited call ends, and loadNewsFromFeeds returns
\* in the end.
C23_TimeoutUnblocksLoad ==
  /\ (timer = "fired") ~> (timer = "off")
  /\ <>Returned

C26_LatestRequestWins ==
  /\ [][shown' >= shown]_vars
  /\ [](page = "Dashboard" /\ inflight = {} /\ issued \in succeeded
           => shown = issued)

\* C27: in Dashboard loading is true exactly when a request is in flight.
C27_LoadingIffInFlight ==
  page = "Dashboard" => (loading <=> inflight # {})

\* C28: in DashboardLive, with auto-fetch on, the step that selects the
\* time range v issues a request with days = v.
C28_RequestCarriesNewRange ==
  [][(page = "DashboardLive" /\ autoFetch /\ timeFilter' # timeFilter) =>
       \E r \in inflight' \ inflight : r.days = timeFilter']_vars

\* C29: in DashboardLive, after every step that sets the data of a
\* response, the tag is All or is in the tagsUniverse of these data.
C29_TagOccursInNewData ==
  [][(page = "DashboardLive" /\ succeeded' # succeeded) =>
       tag' \in tagsUniverse(live')]_vars

\* DashboardPrototype is on screen.
ProtoShown == page = "DashboardPrototype" /\ mounted

\* The fetch of DashboardPrototype succeeded with at least one record.
GotRecords ==
  /\ Len(answer) = 1
  /\ Len(answer[1].news) + Len(answer[1].events) + Len(answer[1].quotes) > 0

\* C30 as claimed: dataMode is LIVE exactly when the fetch succeeded with
\* at least one record in the three lists together, and in LIVE mode none
\* of the three lists on screen is the mock one.
C30_LiveShowsNoMock ==
  ProtoShown =>
    /\ dataMode = "LIVE" <=> GotRecords
    /\ dataMode = "LIVE" =>
         /\ shownNews # sampleNews
         /\ shownEvents # sampleEvents
         /\ shownQuotes # sampleQuotes

\* C30: dataMode is LIVE exactly when the fetch succeeded with at least
\* one record in the three lists together; each list on screen is the one
\* of the response when that holds an item and the mock one when not, so
\* in LIVE mode at least one of the three lists is live.
C30_LiveShowsSomeLive ==
  ProtoShown =>
    /\ dataMode = "LIVE" <=> GotRecords
    /\ Len(answer) = 1 =>
         /\ shownNews = IF Len(answer[1].news) > 0 THEN answer[1].news
                        ELSE sampleNews
         /\ shownEvents = IF Len(answer[1].events) > 0 THEN answer[1].events
                          ELSE sampleEvents
         /\ shownQuotes = IF Len(answer[1].quotes) > 0 THEN answer[1].quotes
                          ELSE sampleQuotes
    /\ dataMode = "LIVE" =>
         \/ shownNews # sampleNews
         \/ shownEvents # sampleEvents
         \/ shownQuotes # sampleQuotes

\* The response held one news item and no event and no quote: the mode is
\* LIVE, the news on screen are live, the events and the quotes are mock.
C30_Witness ==
  /\ ProtoShown
  /\ dataMode = "LIVE"
  /\ Len(answer) = 1
  /\ answer[1].events = <<>>
  /\ shownNews = answer[1].news
  /\ shownEvents = sampleEvents
  /\ shownQuotes = sampleQuotes

=============================================================================
